---- MODULE Spec2Model ----
(***************************************************************************)
(* Model of app.py (FX Timeseries Downloader): the two per-day converters, *)
(* the assembly of the date-indexed table, and the script run started by   *)
(* the 'Fetch rates' button.                                               *)
(*                                                                         *)
(* Strings that the code slices or sorts are sequences of one-character    *)
(* strings.  Floats are exact rationals <<n, d>> in lowest terms; NaN is   *)
(* <<0, 0>>.  A Python dict whose iteration order cannot matter is a       *)
(* function; the date container, whose order decides the row order, is a   *)
(* sequence of <<key, value>> pairs with distinct keys.                    *)
(***************************************************************************)
EXTENDS Integers, Sequences, FiniteSets, TLC

VARIABLES
    base,        \* the base currency (selectbox, line 179)
    day_block,   \* converter harness: one day's bare-code record
    quotes_row,  \* result of _convert_quotes_block_to_base on the pair-code form
    rates_row,   \* result of _convert_rates_block_to_base
    data,        \* assembler harness: the decoded payload
    result,      \* what timeframe_to_dataframe returned or raised
    pc,          \* position of the script run
    api_key, symbols, preset, start_date, end_date, run_btn,   \* widget values
    cached,      \* st.cache_data entry for this run's arguments
    http,        \* GET requests issued by fetch_timeframe
    raw,         \* what fetch_timeframe returned
    df,          \* the frame held by the script
    xlsx,        \* the bytes handed to the download button
    log,         \* the steps the run has executed, in order
    msgs         \* the user messages the run has shown

convVars == <<day_block, quotes_row, rates_row>>
asmVars  == <<data, result>>
flowVars == <<pc, api_key, symbols, preset, start_date, end_date, run_btn,
              cached, http, raw, df, xlsx, log, msgs>>
vars     == <<base, convVars, asmVars, flowVars>>

----------------------------------------------------------------------------
(* Bounds *)
MaxVal  == 2    \* raw numeric values are 0..MaxVal
MaxDays == 2    \* date entries in a payload
MaxDate == 2    \* calendar days the date widgets range over
MonthLen == 2   \* days in a month

----------------------------------------------------------------------------
(* Strings *)
USD == <<"U", "S", "D">>
GBP == <<"G", "B", "P">>
EUR == <<"E", "U", "R">>
Codes == {USD, GBP, EUR}

KeyQuotes == <<"q", "u", "o", "t", "e", "s">>
KeyRates  == <<"r", "a", "t", "e", "s">>

\* the characters in use, in code-point order
Alphabet == <<"B", "D", "E", "G", "P", "R", "S", "U",
              "a", "e", "o", "q", "r", "s", "t", "u">>
Ord(ch) == CHOOSE i \in 1..Len(Alphabet) : Alphabet[i] = ch

\* Python's str < str
StrLess(a, b) ==
    \E i \in 1..(Len(a) + 1) :
        /\ i <= Len(b)
        /\ \A j \in 1..(i - 1) : a[j] = b[j]
        /\ \/ i = Len(a) + 1
           \/ i <= Len(a) /\ Ord(a[i]) < Ord(b[i])

\* pair[-3:]
Last3(pair) ==
    IF Len(pair) <= 3 THEN pair ELSE SubSeq(pair, Len(pair) - 2, Len(pair))

----------------------------------------------------------------------------
(* Floats as rationals *)
RECURSIVE GCD(_, _)
GCD(a, b) == IF b = 0 THEN a ELSE GCD(b, a % b)

Rat(n, d) == LET g == GCD(n, d) IN <<n \div g, d \div g>>
One == <<1, 1>>
NaN == <<0, 0>>
Div(a, b) == Rat(a[1] * b[2], a[2] * b[1])     \* b # 0
Mul(a, b) == Rat(a[1] * b[1], a[2] * b[2])
IsZero(a) == a[1] = 0 /\ a[2] # 0

----------------------------------------------------------------------------
(* JSON values and dicts *)
EmptyDict == [k \in {} |-> 0]
JNum(i)  == [t |-> "num",  n |-> i, d |-> EmptyDict]
JStr     == [t |-> "str",  n |-> 0, d |-> EmptyDict]   \* a string that is no number, "n/a"
JNull    == [t |-> "null", n |-> 0, d |-> EmptyDict]
JDict(f) == [t |-> "dict", n |-> 0, d |-> f]

Put(dict, k, v) == [x \in (DOMAIN dict) \cup {k} |-> IF x = k THEN v ELSE dict[x]]
SetDefault(dict, k, v) == IF k \in DOMAIN dict THEN dict ELSE Put(dict, k, v)

Ok(row)    == [kind |-> "ok", exc |-> "", row |-> row]
Raise(exc) == [kind |-> "raise", exc |-> exc, row |-> EmptyDict]
NotRun     == [kind |-> "none", exc |-> "", row |-> EmptyDict]

\* float(val)
CanFloat(v) == v.t = "num"
Float(v) == <<v.n, 1>>

\* the exception the float() calls of one block raise, "" when none does;
\* no block drawn here has both a string and a dict among its values
FloatError(block) ==
    IF \E k \in DOMAIN block : block[k].t = "str" THEN "ValueError"
    ELSE IF \E k \in DOMAIN block : ~CanFloat(block[k]) THEN "TypeError"
    ELSE ""

----------------------------------------------------------------------------
(* The converters *)

\* lines 91-95; no two keys drawn here share their last three characters
UsdTo(block) ==
    [cur \in {Last3(p) : p \in DOMAIN block} |->
        Float(block[CHOOSE p \in DOMAIN block : Last3(p) = cur])]

\* line 104
UsdColumnQuotes(base_row, usd_to, b) == Put(base_row, USD, Div(One, usd_to[b]))

convert_quotes_block_to_base(block, b) ==
    IF FloatError(block) # "" THEN Raise(FloatError(block))
    ELSE LET usd_to == UsdTo(block) IN
         IF b \notin DOMAIN usd_to THEN Ok(EmptyDict)
         ELSE IF IsZero(usd_to[b]) THEN Raise("ZeroDivisionError")
         ELSE LET base_row == [c \in DOMAIN usd_to |-> Div(usd_to[c], usd_to[b])]
              IN  Ok(UsdColumnQuotes(Put(base_row, b, One), usd_to, b))

\* line 119 with the quotient upside down
UsdColumnRatesInverted(converted, r, b) == SetDefault(converted, USD, Div(r[b], One))

\* line 119
UsdColumnRates(converted, r, b) == SetDefault(converted, USD, Div(One, r[b]))

convert_rates_block_to_base(block, b) ==
    IF FloatError(block) # "" THEN Raise(FloatError(block))
    ELSE LET r == [k \in DOMAIN block |-> Float(block[k])] IN
         IF b \notin DOMAIN r THEN Ok(EmptyDict)
         ELSE IF IsZero(r[b]) THEN Raise("ZeroDivisionError")
         ELSE LET converted == [c \in DOMAIN r |-> Div(r[c], r[b])]
              IN  Ok(UsdColumnRates(Put(converted, b, One), r, b))

----------------------------------------------------------------------------
(* The table *)

\* pd.to_datetime(date_str): two spellings of one calendar day parse to the
\* same timestamp (here the day's ordinal)
ToDatetime(date_str) ==
    CASE date_str = "2024-01-01"          -> 1
      [] date_str = "2024-01-01T00:00:00" -> 1
      [] date_str = "2024-01-02"          -> 2

EmptyFrame == [index |-> <<>>, columns |-> <<>>, cells |-> <<>>]
Returned(frame) == [kind |-> "df", exc |-> "", df |-> frame]
Raised(exc)     == [kind |-> "raise", exc |-> exc, df |-> EmptyFrame]
NoResult        == [kind |-> "none", exc |-> "", df |-> EmptyFrame]

\* df.empty
IsEmpty(frame) == Len(frame.index) = 0 \/ Len(frame.columns) = 0

\* line 129: data.get("quotes") or data.get("rates") or {}
Container(d) ==
    IF d.has_quotes /\ Len(d.quotes) > 0 THEN d.quotes
    ELSE IF d.has_rates /\ Len(d.rates) > 0 THEN d.rates
    ELSE <<>>

\* lines 133-135: only a block that is NOT a dict is asked for its child
BlockOf(block) ==
    IF block.t # "dict" THEN Raise("AttributeError") ELSE Ok(block.d)

\* lines 137-140
ConvertDay(d, block, b) ==
    IF d.has_quotes THEN convert_quotes_block_to_base(block, b)
    ELSE convert_rates_block_to_base(block, b)

\* lines 142-144 without the skip
KeepRowAlways(converted) == TRUE

\* lines 142-144
KeepRow(converted) == DOMAIN converted # {}

\* lines 130-147: the loop over the container, from entry i on
RECURSIVE RowsFrom(_, _, _, _)
RowsFrom(d, c, i, b) ==
    IF i > Len(c) THEN [kind |-> "ok", exc |-> "", rows |-> <<>>]
    ELSE LET blk == BlockOf(c[i][2]) IN
         IF blk.kind = "raise" THEN [kind |-> "raise", exc |-> blk.exc, rows |-> <<>>]
         ELSE LET conv == ConvertDay(d, blk.row, b) IN
              IF conv.kind = "raise" THEN [kind |-> "raise", exc |-> conv.exc, rows |-> <<>>]
              ELSE LET rest == RowsFrom(d, c, i + 1, b) IN
                   IF rest.kind = "raise" THEN rest
                   ELSE IF KeepRow(conv.row)
                        THEN [rest EXCEPT !.rows =
                                 <<[date |-> ToDatetime(c[i][1]), row |-> conv.row]>> \o @]
                        ELSE rest

Injective(f) == \A i, j \in DOMAIN f : f[i] = f[j] => i = j

\* sort_values("date"): every arrangement that is ascending by date (the
\* order of rows with equal dates is not promised)
SortByDate(rows) ==
    {[i \in 1..Len(rows) |-> rows[p[i]]] :
        p \in {q \in [1..Len(rows) -> 1..Len(rows)] :
                  /\ Injective(q)
                  /\ \A i, j \in 1..Len(rows) :
                        i < j => rows[q[i]].date <= rows[q[j]].date}}

\* sorted(...)
Sorted(S) ==
    CHOOSE s \in [1..Cardinality(S) -> S] :
        \A i, j \in 1..Cardinality(S) : i < j => StrLess(s[i], s[j])

\* line 153 without the base put first
ColsSortedOnly(b, columns) == Sorted(columns)

\* line 153
Cols(b, columns) == <<b>> \o Sorted(columns \ {b})

\* pd.DataFrame(rows): a key a row lacks becomes NaN
Cell(row, c) == IF c \in DOMAIN row THEN row[c] ELSE NaN

\* lines 152-154
Frames(rows, b) ==
    LET columns == UNION {DOMAIN rows[i].row : i \in 1..Len(rows)}
        cols    == Cols(b, columns)
    IN  {[index   |-> [i \in 1..Len(s) |-> s[i].date],
          columns |-> cols,
          cells   |-> [i \in 1..Len(s) |->
                          [c \in columns |-> Cell(s[i].row, c)]]] :
            s \in SortByDate(rows)}

\* lines 149-154 without the early return: sort_values finds no "date" column
FrameOfUnguarded(rows, b) ==
    IF rows = <<>> THEN {Raised("KeyError")}
    ELSE {Returned(f) : f \in Frames(rows, b)}

\* lines 149-154
FrameOf(rows, b) ==
    IF rows = <<>> THEN {Returned(EmptyFrame)}
    ELSE {Returned(f) : f \in Frames(rows, b)}

\* lines 122-154: the set of outcomes of one call
timeframe_to_dataframe(d, b) ==
    LET rr == RowsFrom(d, Container(d), 1, b) IN
    IF rr.kind = "raise" THEN {Raised(rr.exc)} ELSE FrameOf(rr.rows, b)

----------------------------------------------------------------------------
(* Fetching and exporting *)

NoData == [has_quotes |-> FALSE, quotes |-> <<>>, has_rates |-> FALSE, rates |-> <<>>]
QuotesData(c) == [has_quotes |-> TRUE, quotes |-> c, has_rates |-> FALSE, rates |-> <<>>]
RatesData(c)  == [has_quotes |-> FALSE, quotes |-> <<>>, has_rates |-> TRUE, rates |-> c]

\* lines 67-79 applied to one response of the provider
fetch_timeframe(resp) ==
    IF ~resp.http_ok THEN [kind |-> "raise", exc |-> "HTTPError", data |-> NoData]
    ELSE IF ~resp.success /\ resp.has_error
         THEN [kind |-> "raise", exc |-> "RuntimeError", data |-> NoData]
    ELSE IF ~(resp.body.has_rates \/ resp.body.has_quotes)
         THEN [kind |-> "raise", exc |-> "RuntimeError", data |-> NoData]
    ELSE [kind |-> "ok", exc |-> "", data |-> resp.body]

\* lines 221-229 without the check of the selection
ValidationErrorNoSymbols(key, syms, sd, ed) ==
    IF ~key THEN "api_key"
    ELSE IF sd > ed THEN "dates"
    ELSE ""

\* lines 221-229: the message of the first failing check, "" when all pass
ValidationError(key, syms, sd, ed) ==
    IF ~key THEN "api_key"
    ELSE IF syms = <<>> THEN "symbols"
    ELSE IF sd > ed THEN "dates"
    ELSE ""

\* line 249
NothingToShow(frame) == IsEmpty(frame)

\* lines 254-255
Project(frame, b, syms) ==
    LET NotBase(c) == c # b
        wanted == <<b>> \o SelectSeq(syms, NotBase)
        InFrame(c) == \E i \in 1..Len(frame.columns) : frame.columns[i] = c
        kept == SelectSeq(wanted, InFrame)
        keptSet == {kept[i] : i \in 1..Len(kept)}
    IN  [index   |-> frame.index,
         columns |-> kept,
         cells   |-> [i \in 1..Len(frame.cells) |->
                         [c \in keptSet |-> frame.cells[i][c]]]]

\* lines 156-166 with the meta of lines 266-273 (its timestamp left out)
make_excel_download(frame, meta) == [Rates |-> frame, Meta |-> meta]
NoXlsx == [Rates |-> EmptyFrame,
           Meta |-> [Base |-> <<>>, Symbols |-> <<>>, Start |-> 0, End |-> 0,
                     Endpoint |-> ""]]

\* lines 193-201
FirstOfMonth(day) == day - ((day - 1) % MonthLen)

----------------------------------------------------------------------------
(* Inputs *)

Records(Vals) == UNION {[S -> Vals] : S \in SUBSET Codes}
PairKey(code) == USD \o code
PairBlock(r)  == [p \in {PairKey(k) : k \in DOMAIN r} |-> r[Last3(p)]]

RawVals    == {JNum(i) : i \in 0..MaxVal} \cup {JStr}
NumRecords == Records({JNum(i) : i \in 1..MaxVal})
\* the day records the assembler is handed: rates against the provider's USD
\* pivot, so USD itself is 1; sterling at MaxVal, the euro at either end
AsmRecords ==
    {r \in NumRecords :
        /\ USD \in DOMAIN r => r[USD] = JNum(1)
        /\ GBP \in DOMAIN r => r[GBP] = JNum(MaxVal)
        /\ EUR \in DOMAIN r => r[EUR] \in {JNum(1), JNum(MaxVal)}}
\* records of two entries, one of them no number
BadRecords ==
    {[k \in {p[1], p[2]} |-> IF k = p[1] THEN JStr ELSE JNum(1)] :
        p \in {<<EUR, GBP>>, <<GBP, USD>>, <<USD, EUR>>}}
\* records that arrive wrapped one level down
InnerRecords == {r \in AsmRecords : Cardinality(DOMAIN r) = 2 /\ GBP \in DOMAIN r
                                     /\ (EUR \in DOMAIN r => r[EUR] = JNum(1))}

Keyed(shape, r) == IF shape = "quotes" THEN PairBlock(r) ELSE r
Wrapped(shape, r) ==
    JDict([k \in {IF shape = "quotes" THEN KeyQuotes ELSE KeyRates} |->
              JDict(Keyed(shape, r))])

DayItems(shape) ==
    {JDict(Keyed(shape, r)) : r \in AsmRecords \cup BadRecords}
      \cup {Wrapped(shape, r) : r \in InnerRecords}
      \cup {JNull}

DateKeys == {"2024-01-01", "2024-01-01T00:00:00", "2024-01-02"}

KeySeqs(n) == {ks \in [1..n -> DateKeys] : Injective(ks)}

MkData(shape, c) == IF shape = "quotes" THEN QuotesData(c) ELSE RatesData(c)

\* what the script run can be handed: at most one day, keyed "2024-01-01"
FlowItems(shape) == DayItems(shape)
FlowContainers(shape) ==
    {<<>>} \cup {<< <<"2024-01-01", it>> >> : it \in FlowItems(shape)}
KeyedBodies == {MkData(shape, c) : shape \in {"quotes"}, c \in FlowContainers("quotes")}
                 \cup {MkData(shape, c) : shape \in {"rates"}, c \in FlowContainers("rates")}
Responses ==
    {[http_ok |-> FALSE, success |-> FALSE, has_error |-> FALSE, body |-> NoData]}
      \cup [http_ok : {TRUE}, success : BOOLEAN, has_error : BOOLEAN,
            body : KeyedBodies \cup {NoData}]

Selections(b) ==
    {s \in UNION {[1..n -> Codes \ {b}] : n \in 0..2} : Injective(s)}

----------------------------------------------------------------------------
(* The states the three harnesses leave alone *)
IdleConv == day_block = EmptyDict /\ quotes_row = NotRun /\ rates_row = NotRun
IdleAsm  == data = NoData /\ result = NoResult
IdleFlow ==
    /\ pc = "off" /\ api_key = FALSE /\ symbols = <<>> /\ preset = "Custom"
    /\ start_date = 1 /\ end_date = 1 /\ run_btn = FALSE
    /\ cached = [hit |-> FALSE, value |-> NoData]
    /\ http = 0 /\ raw = NoData /\ df = EmptyFrame /\ xlsx = NoXlsx
    /\ log = <<>> /\ msgs = <<>>

----------------------------------------------------------------------------
(* The converters, applied to one record in both schemas *)
InitConv ==
    /\ base \in Codes
    /\ day_block \in Records(RawVals)
    /\ quotes_row = NotRun /\ rates_row = NotRun
    /\ IdleAsm /\ IdleFlow

ConvertQuotes ==
    /\ pc = "off" /\ quotes_row.kind = "none" /\ result.kind = "none"
    /\ quotes_row' = convert_quotes_block_to_base(PairBlock(day_block), base)
    /\ UNCHANGED <<base, day_block, rates_row, asmVars, flowVars>>

ConvertRates ==
    /\ pc = "off" /\ rates_row.kind = "none" /\ result.kind = "none"
    /\ rates_row' = convert_rates_block_to_base(day_block, base)
    /\ UNCHANGED <<base, day_block, quotes_row, asmVars, flowVars>>

NextConv == ConvertQuotes \/ ConvertRates
SpecConv == InitConv /\ [][NextConv]_vars

----------------------------------------------------------------------------
(* The assembler, applied to one payload *)
InitAsm ==
    /\ base \in Codes
    /\ \/ data = NoData
       \/ \E shape \in {"quotes", "rates"}, n \in 0..MaxDays :
             \E ks \in KeySeqs(n), it \in [1..n -> DayItems(shape)] :
                data = MkData(shape, [i \in 1..n |-> <<ks[i], it[i]>>])
    /\ result = NoResult
    /\ IdleConv /\ IdleFlow

CallAssembler ==
    /\ pc = "off" /\ result.kind = "none" /\ quotes_row.kind = "none"
    /\ rates_row.kind = "none"
    /\ result' \in timeframe_to_dataframe(data, base)
    /\ UNCHANGED <<base, data, convVars, flowVars>>

NextAsm == CallAssembler
SpecAsm == InitAsm /\ [][NextAsm]_vars

----------------------------------------------------------------------------
(* One run of the script *)
Msg(level, text) == [level |-> level, text |-> text]

Init ==
    /\ base \in Codes
    /\ pc = "sidebar"
    /\ api_key \in BOOLEAN
    /\ symbols \in Selections(base)
    /\ preset \in {"This month", "Last month", "Custom"}
    /\ \E today \in 1..MaxDate, sd \in 1..MaxDate, ed \in 1..MaxDate :
          /\ start_date = CASE preset = "This month" -> FirstOfMonth(today)
                            [] preset = "Last month" -> FirstOfMonth(FirstOfMonth(today) - 1)
                            [] OTHER -> sd
          /\ end_date = CASE preset = "This month" -> today
                          [] preset = "Last month" -> FirstOfMonth(today) - 1
                          [] OTHER -> ed
    /\ run_btn \in BOOLEAN
    /\ cached \in {[hit |-> FALSE, value |-> NoData]}
                    \cup {[hit |-> TRUE, value |-> d] : d \in KeyedBodies}
    /\ http = 0 /\ raw = NoData /\ df = EmptyFrame /\ xlsx = NoXlsx
    /\ log = <<>> /\ msgs = <<>>
    /\ IdleConv /\ IdleAsm

\* lines 203-206
Sidebar ==
    /\ pc = "sidebar"
    /\ msgs' = IF preset = "Custom" /\ start_date > end_date
               THEN Append(msgs, Msg("error", "dates")) ELSE msgs
    /\ pc' = "main"
    /\ UNCHANGED <<base, convVars, asmVars, api_key, symbols, preset, start_date,
                   end_date, run_btn, cached, http, raw, df, xlsx, log>>

\* lines 220-232 and 287-288
Validate ==
    /\ pc = "main"
    /\ IF ~run_btn
       THEN /\ msgs' = Append(msgs, Msg("info", "pick"))
            /\ pc' = "done"
            /\ log' = log
       ELSE LET err == ValidationError(api_key, symbols, start_date, end_date) IN
            /\ log' = Append(log, "validate")
            /\ IF err # ""
               THEN msgs' = Append(msgs, Msg("error", err)) /\ pc' = "stopped"
               ELSE msgs' = msgs /\ pc' = "fetch"
    /\ UNCHANGED <<base, convVars, asmVars, api_key, symbols, preset, start_date,
                   end_date, run_btn, cached, http, raw, df, xlsx>>

\* line 236 served by st.cache_data (line 42)
FetchCached ==
    /\ pc = "fetch" /\ cached.hit
    /\ log' = Append(log, "fetch")
    /\ raw' = cached.value
    /\ pc' = "assemble"
    /\ UNCHANGED <<base, convVars, asmVars, api_key, symbols, preset, start_date,
                   end_date, run_btn, cached, http, df, xlsx, msgs>>

\* lines 234-245
FetchRemote ==
    /\ pc = "fetch" /\ ~cached.hit
    /\ log' = Append(log, "fetch")
    /\ http' = http + 1
    /\ \E resp \in Responses :
          LET r == fetch_timeframe(resp) IN
          IF r.kind = "ok"
          THEN /\ raw' = r.data
               /\ cached' = [hit |-> TRUE, value |-> r.data]
               /\ msgs' = msgs
               /\ pc' = "assemble"
          ELSE /\ msgs' = Append(msgs, Msg("error", "retrieve"))
               /\ pc' = "stopped"
               /\ UNCHANGED <<raw, cached>>
    /\ UNCHANGED <<base, convVars, asmVars, api_key, symbols, preset, start_date,
                   end_date, run_btn, df, xlsx>>

\* line 247; an exception of the assembler is not caught
Assemble ==
    /\ pc = "assemble"
    /\ log' = Append(log, "assemble")
    /\ \E r \in timeframe_to_dataframe(raw, base) :
          IF r.kind = "df"
          THEN df' = r.df /\ pc' = "present"
          ELSE df' = df /\ pc' = "crashed"
    /\ UNCHANGED <<base, convVars, asmVars, api_key, symbols, preset, start_date,
                   end_date, run_btn, cached, http, raw, xlsx, msgs>>

\* lines 249-251
WarnNoData ==
    /\ pc = "present" /\ NothingToShow(df)
    /\ msgs' = Append(msgs, Msg("warning", "no_data"))
    /\ pc' = "stopped"
    /\ UNCHANGED <<base, convVars, asmVars, api_key, symbols, preset, start_date,
                   end_date, run_btn, cached, http, raw, df, xlsx, log>>

\* lines 253-285
Export ==
    /\ pc = "present" /\ ~NothingToShow(df)
    /\ df' = Project(df, base, symbols)
    /\ xlsx' = make_excel_download(df',
                  [Base |-> base, Symbols |-> symbols, Start |-> start_date,
                   End |-> end_date, Endpoint |-> "/timeframe"])
    /\ log' = Append(log, "export")
    /\ pc' = "done"
    /\ UNCHANGED <<base, convVars, asmVars, api_key, symbols, preset, start_date,
                   end_date, run_btn, cached, http, raw, msgs>>

Next ==
    \/ Sidebar \/ Validate \/ FetchCached \/ FetchRemote
    \/ Assemble \/ WarnNoData \/ Export
Spec == Init /\ [][Next]_vars

----------------------------------------------------------------------------
(* Properties of the converters, under SpecConv *)

NonEmptyRow(r) == r.kind = "ok" /\ DOMAIN r.row # {}
BaseValue == Float(day_block[base])

\* C1: every non-empty BaseRow, of either converter, has the base at exactly
\* 1.0, also when the base is USD and the record's USD value is not 1.
C1_BaseIsOne ==
    /\ NonEmptyRow(quotes_row) => quotes_row.row[base] = One
    /\ NonEmptyRow(rates_row) => rates_row.row[base] = One

\* C2: schema independence: the quotes converter on the USD-prefixed record
\* and the rates converter on the bare record return the same result, both
\* empty or both the same keys with the same values.
C2_SchemaIndependence ==
    (quotes_row.kind = "ok" /\ rates_row.kind = "ok")
        => quotes_row.row = rates_row.row

\* C3 as stated: every non-empty BaseRow has a USD entry whose product with
\* the record's base value is 1, whatever USD entry the record itself has.
C3_UsdAnchorAnyUsd ==
    /\ NonEmptyRow(quotes_row) =>
          /\ USD \in DOMAIN quotes_row.row
          /\ Mul(quotes_row.row[USD], BaseValue) = One
    /\ NonEmptyRow(rates_row) =>
          /\ USD \in DOMAIN rates_row.row
          /\ Mul(rates_row.row[USD], BaseValue) = One

\* C3 amended: every non-empty BaseRow has a USD entry; its product with the
\* record's base value is 1 for the quotes converter always, and for the
\* rates converter when the record has no USD entry or a USD entry of 1.
C3_UsdAnchor ==
    /\ NonEmptyRow(quotes_row) =>
          /\ USD \in DOMAIN quotes_row.row
          /\ Mul(quotes_row.row[USD], BaseValue) = One
    /\ NonEmptyRow(rates_row) =>
          /\ USD \in DOMAIN rates_row.row
          /\ (USD \notin DOMAIN day_block \/ day_block[USD] = JNum(1))
                => Mul(rates_row.row[USD], BaseValue) = One

C3_Witness ==
    /\ NonEmptyRow(rates_row) /\ NonEmptyRow(quotes_row)
    /\ USD \notin DOMAIN day_block
    /\ day_block[base] = JNum(MaxVal)
    /\ rates_row.row[USD] = <<1, MaxVal>>

----------------------------------------------------------------------------
(* Properties of the assembler, under SpecAsm *)

Entries == IF data.has_quotes THEN data.quotes ELSE data.rates
EntryIds == 1..Len(Entries)
\* the currency codes of a day record
DayCodes(item) ==
    IF data.has_quotes THEN {Last3(p) : p \in DOMAIN item.d} ELSE DOMAIN item.d
HasBase(e) == Entries[e][2].t = "dict" /\ base \in DayCodes(Entries[e][2])
DateOf(e) == ToDatetime(Entries[e][1])
BaseRowOf(e) == ConvertDay(data, Entries[e][2].d, base).row
RowIds == 1..Len(result.df.index)
IsWrapped(item) ==
    /\ item.t = "dict"
    /\ \E k \in DOMAIN item.d : k \in {KeyQuotes, KeyRates} /\ item.d[k].t = "dict"
\* the payload with every wrapped day record replaced by the record inside
Unwrap(item) ==
    IF IsWrapped(item)
    THEN item.d[CHOOSE k \in DOMAIN item.d : k \in {KeyQuotes, KeyRates}]
    ELSE item
Unwrapped(c) == [i \in 1..Len(c) |-> <<c[i][1], Unwrap(c[i][2])>>]
UnwrappedData ==
    [data EXCEPT !.quotes = Unwrapped(@), !.rates = Unwrapped(@)]

\* C4: the row dates of a returned Series are exactly the dates of the days
\* whose record contains the base; every such day has its converted row, a
\* day without the base has none.
C4_DroppedDays ==
    result.kind = "df" =>
        /\ {result.df.index[i] : i \in RowIds} = {DateOf(e) : e \in {x \in EntryIds : HasBase(x)}}
        /\ Len(result.df.index) = Cardinality({e \in EntryIds : HasBase(e)})
        /\ \A e \in EntryIds : HasBase(e) =>
              \E i \in RowIds :
                 /\ result.df.index[i] = DateOf(e)
                 /\ \A c \in DOMAIN BaseRowOf(e) : result.df.cells[i][c] = BaseRowOf(e)[c]

C4_Witness ==
    /\ result.kind = "df"
    /\ Len(Entries) = 2 /\ Len(result.df.index) = 1
    /\ \E e \in EntryIds : HasBase(e) /\ DateOf(e) = 1
    /\ \E e \in EntryIds : ~HasBase(e) /\ DateOf(e) = 2 /\ DOMAIN Entries[e][2].d # {}

\* C5 as stated: a payload with neither "rates" nor "quotes" makes the
\* assembler raise.
C5_RaisesWithoutKey ==
    (result.kind # "none" /\ ~data.has_quotes /\ ~data.has_rates)
        => result.kind = "raise"

\* C5 amended: a payload with neither "rates" nor "quotes" makes the
\* assembler return the empty Series, and nothing is raised.
C5_EmptyWithoutKey ==
    (result.kind # "none" /\ ~data.has_quotes /\ ~data.has_rates)
        => result = Returned(EmptyFrame)

C5_Witness ==
    /\ ~data.has_quotes /\ ~data.has_rates
    /\ result.kind = "df" /\ IsEmpty(result.df)

\* C6: ParseSkip: an entry whose value is no number is left out alone; the
\* day still yields its row when its base entry is a number, and the
\* assembly raises nothing.
C6_ParseSkip ==
    (/\ result.kind # "none"
     /\ \A e \in EntryIds : Entries[e][2].t = "dict" /\ ~IsWrapped(Entries[e][2]))
        => /\ result.kind = "df"
           /\ \A e \in EntryIds :
                 (HasBase(e) /\ \E k \in DOMAIN Entries[e][2].d :
                                    Last3(k) = base /\ CanFloat(Entries[e][2].d[k]))
                    => \E i \in RowIds : result.df.index[i] = DateOf(e)

\* C7: a day record wrapped one level under a repeated "rates" or "quotes"
\* key gives the same Series as the record put directly under its date.
C7_Unwrapping ==
    (result.kind # "none" /\ \E e \in EntryIds : IsWrapped(Entries[e][2]))
        => result \in timeframe_to_dataframe(UnwrappedData, base)

\* C8: the columns of a non-empty Series are the base, then every other code
\* of some kept day's BaseRow, each once, ascending; a code a kept day lacks
\* is NaN on that day, the others carry the day's converted values.
C8_Columns ==
    (result.kind = "df" /\ ~IsEmpty(result.df)) =>
        LET cols  == result.df.columns
            union == UNION {DOMAIN BaseRowOf(e) : e \in {x \in EntryIds : HasBase(x)}}
        IN  /\ cols[1] = base
            /\ {cols[i] : i \in 2..Len(cols)} = union \ {base}
            /\ Len(cols) = Cardinality(union \ {base}) + 1
            /\ \A i, j \in 2..Len(cols) : i < j => StrLess(cols[i], cols[j])
            /\ \A i \in RowIds :
                  \E e \in EntryIds :
                     /\ HasBase(e) /\ DateOf(e) = result.df.index[i]
                     /\ \A k \in 1..Len(cols) :
                           result.df.cells[i][cols[k]] =
                              IF cols[k] \in DOMAIN BaseRowOf(e)
                              THEN BaseRowOf(e)[cols[k]] ELSE NaN

C8_Witness ==
    /\ result.kind = "df" /\ base = GBP
    /\ result.df.columns = <<GBP, EUR, USD>>
    /\ Len(result.df.index) = 2
    /\ result.df.cells[1][EUR] = NaN /\ result.df.cells[2][EUR] # NaN

\* C9: the row dates of a returned Series are strictly ascending, no
\* calendar date twice, also when two payload keys denote the same date.
C9_StrictlyAscending ==
    result.kind = "df" =>
        \A i, j \in RowIds : i < j => result.df.index[i] < result.df.index[j]

----------------------------------------------------------------------------
(* Properties of the script run, under Spec *)

Steps == <<"validate", "fetch", "assemble", "export">>
Did(step) == \E i \in 1..Len(log) : log[i] = step
LastMsg == msgs[Len(msgs)]

\* C10: a run started by the button executes validate, fetch, assemble,
\* export in that order and each only behind its guard: the fetch behind a
\* key, a selection and start <= end; the assembly behind a fetch that
\* returned; the export behind a non-empty Series.  A failing guard ends the
\* run with its message and no later step; an empty Series ends in the
\* no-data warning, and the run ends uncaught only when the assembler
\* returned no Series at all.
C10_FlowOrder ==
    /\ Len(log) <= Len(Steps) /\ log = SubSeq(Steps, 1, Len(log))
    /\ Len(log) > 0 => run_btn
    /\ (Did("fetch") \/ http > 0) =>
          api_key /\ symbols # <<>> /\ start_date <= end_date
    /\ http > 0 => Did("fetch")
    /\ Did("assemble") =>
          /\ raw.has_quotes \/ raw.has_rates
          /\ \A i \in 1..Len(msgs) : msgs[i].text # "retrieve"
    /\ Did("export") =>
          /\ pc = "done" /\ ~IsEmpty(df)
          /\ xlsx.Rates = df /\ df.columns[1] = base
    /\ xlsx # NoXlsx => Did("export")
    /\ pc = "stopped" =>
          /\ Len(log) \in 1..3
          /\ Len(log) = 1 => LastMsg \in {Msg("error", "api_key"),
                                           Msg("error", "symbols"),
                                           Msg("error", "dates")}
          /\ Len(log) = 2 => LastMsg = Msg("error", "retrieve")
          /\ Len(log) = 3 => LastMsg = Msg("warning", "no_data") /\ IsEmpty(df)
    /\ pc = "present" => Len(log) = 3
    /\ pc = "done" => IF run_btn THEN Len(log) = 4 ELSE log = <<>>
    /\ pc = "crashed" =>
          /\ Len(log) = 3
          /\ \A r \in timeframe_to_dataframe(raw, base) : r.kind = "raise"

C10_Witness ==
    /\ pc = "done" /\ log = Steps /\ http = 1
    /\ Len(df.index) = 1 /\ Len(df.columns) = 2

====
